---- MODULE Spec2Model ----
(***************************************************************************)
(* Study-guide generator: transcript cleaning and segmentation             *)
(* (transcript_parser/parser.py), the LLM invocation layer with its retry  *)
(* policy (llm_chain/chain.py), the plain text renderer                    *)
(* (output_formatter/formatter.py) and the orchestration of a run          *)
(* (main.py).                                                              *)
(*                                                                         *)
(* Text the program computes on is a sequence of one-character strings.    *)
(* Python's None, where a text may stand, is the value None: a sequence    *)
(* that is no text, since its one element is not a character.              *)
(***************************************************************************)
EXTENDS Integers, Sequences, FiniteSets, TLC

None == <<"None">>

(***************************************************************************)
(* Character classes of Python's re module and of str.strip / str.split.  *)
(***************************************************************************)
UpperCase == <<"A","B","C","D","E","F","G","H","I","J","K","L","M",
               "N","O","P","Q","R","S","T","U","V","W","X","Y","Z">>
LowerCase == <<"a","b","c","d","e","f","g","h","i","j","k","l","m",
               "n","o","p","q","r","s","t","u","v","w","x","y","z">>
Digits == {"0","1","2","3","4","5","6","7","8","9"}

\* \s of a str pattern, str.strip and str.split: the ASCII whitespace with
\* form feed and vertical tab, the separators U+001C to U+001F, next line
\* (U+0085) and the no-break space (U+00A0). Characters above U+00FF are
\* outside the alphabet of the model.
IsSpace(c) ==
    c \in {" ", "\t", "\n", "\r", "\f", "", "", "", "", "", "", " "}

\* The letters and numerals from U+0080 to U+00FF (str.isalnum).
Latin1WordChars ==
    { "ª", "²", "³", "µ", "¹", "º", "¼", "½", "¾", "À", "Á", "Â", "Ã", "Ä", "Å", "Æ",
      "Ç", "È", "É", "Ê", "Ë", "Ì", "Í", "Î", "Ï", "Ð", "Ñ", "Ò", "Ó", "Ô", "Õ", "Ö",
      "Ø", "Ù", "Ú", "Û", "Ü", "Ý", "Þ", "ß", "à", "á", "â", "ã", "ä", "å", "æ", "ç",
      "è", "é", "ê", "ë", "ì", "í", "î", "ï", "ð", "ñ", "ò", "ó", "ô", "õ", "ö", "ø",
      "ù", "ú", "û", "ü", "ý", "þ", "ÿ" }

\* \w of a str pattern: letters and numerals of any script, and "_".
IsWordChar(c) ==
    \/ \E k \in 1..26 : c = UpperCase[k] \/ c = LowerCase[k]
    \/ c \in Digits
    \/ c = "_"
    \/ c \in Latin1WordChars

\* [,.!?]
IsPunct(c) == c \in {",", ".", "!", "?"}

\* Case folding of re.IGNORECASE on the letters A-Z.
Lower(c) ==
    IF \E k \in 1..26 : c = UpperCase[k]
    THEN LowerCase[CHOOSE k \in 1..26 : c = UpperCase[k]]
    ELSE c

\* s[a:b] with 1-based inclusive bounds; empty when a > b.
Slice(s, a, b) == IF a > b THEN <<>> ELSE SubSeq(s, a, b)

\* str.startswith / str.endswith
startswith(s, p) == Len(s) >= Len(p) /\ SubSeq(s, 1, Len(p)) = p
endswith(s, p) == Len(s) >= Len(p) /\ SubSeq(s, Len(s) - Len(p) + 1, Len(s)) = p

\* str.strip(): whitespace removed at both ends.
RECURSIVE lstrip(_)
lstrip(s) == IF s # <<>> /\ IsSpace(Head(s)) THEN lstrip(Tail(s)) ELSE s
RECURSIVE rstrip(_)
rstrip(s) ==
    IF s # <<>> /\ IsSpace(s[Len(s)]) THEN rstrip(SubSeq(s, 1, Len(s) - 1)) ELSE s
strip(s) == lstrip(rstrip(s))

\* First position >= p of s that holds no whitespace (Len(s)+1 when none).
RECURSIVE SkipSpace(_, _)
SkipSpace(s, p) ==
    IF p <= Len(s) /\ IsSpace(s[p]) THEN SkipSpace(s, p + 1) ELSE p

\* re.sub(r"\s+", " ", s): every maximal whitespace run becomes one space.
RECURSIVE SubSpaceRuns(_, _)
SubSpaceRuns(s, p) ==
    IF p > Len(s) THEN <<>>
    ELSE IF IsSpace(s[p])
         THEN <<" ">> \o SubSpaceRuns(s, SkipSpace(s, p))
         ELSE <<s[p]>> \o SubSpaceRuns(s, p + 1)

\* re.sub(r"\s+", " ", s).strip()
CollapseWhitespace(s) == strip(SubSpaceRuns(s, 1))

(***************************************************************************)
(* clean_transcript_text, stage by stage.                                  *)
(***************************************************************************)
filler_words == << <<"u","h">>, <<"u","m">>, <<"l","i","k","e">>,
                   <<"y","o","u"," ","k","n","o","w">>, <<"s","o">> >>

\* Variant: the pattern without its \b anchors.
MatchesWordAt_substring(s, w, p) ==
    /\ p + Len(w) - 1 <= Len(s)
    /\ \A k \in 1..Len(w) : Lower(s[p + k - 1]) = Lower(w[k])

\* The pattern \b<w>\b, IGNORECASE, matches s at position p.
MatchesWordAt(s, w, p) ==
    /\ p + Len(w) - 1 <= Len(s)
    /\ \A k \in 1..Len(w) : Lower(s[p + k - 1]) = Lower(w[k])
    /\ (p = 1 \/ ~IsWordChar(s[p - 1]))
    /\ (p + Len(w) > Len(s) \/ ~IsWordChar(s[p + Len(w)]))

\* re.sub(r"\b" + re.escape(w) + r"\b", "", s, flags=re.IGNORECASE)
RECURSIVE RemoveWord(_, _, _)
RemoveWord(s, w, p) ==
    IF p > Len(s) THEN <<>>
    ELSE IF MatchesWordAt(s, w, p)
         THEN RemoveWord(s, w, p + Len(w))
         ELSE <<s[p]>> \o RemoveWord(s, w, p + 1)

\* The loop over filler_words, in list order.
RECURSIVE RemoveFillers(_, _)
RemoveFillers(s, k) ==
    IF k > Len(filler_words) THEN s
    ELSE RemoveFillers(RemoveWord(s, filler_words[k], 1), k + 1)

\* End (exclusive) of a match of \s*\.\s*\.\s*\.\s* starting at p, or 0.
EllipsisEnd(s, p) ==
    LET d1 == SkipSpace(s, p)
        d2 == SkipSpace(s, d1 + 1)
        d3 == SkipSpace(s, d2 + 1)
    IN IF /\ d1 <= Len(s) /\ s[d1] = "."
          /\ d2 <= Len(s) /\ s[d2] = "."
          /\ d3 <= Len(s) /\ s[d3] = "."
       THEN SkipSpace(s, d3 + 1)
       ELSE 0

\* re.sub(r"\s*\.\s*\.\s*\.\s*", " ... ", s)
RECURSIVE SubEllipsis(_, _)
SubEllipsis(s, p) ==
    IF p > Len(s) THEN <<>>
    ELSE IF EllipsisEnd(s, p) # 0
         THEN <<" ", ".", ".", ".", " ">> \o SubEllipsis(s, EllipsisEnd(s, p))
         ELSE <<s[p]>> \o SubEllipsis(s, p + 1)

\* re.sub(r"\s+([,.!?])", r"\1", s)
RECURSIVE SubSpaceBeforePunct(_, _)
SubSpaceBeforePunct(s, p) ==
    IF p > Len(s) THEN <<>>
    ELSE IF /\ IsSpace(s[p])
            /\ SkipSpace(s, p) <= Len(s)
            /\ IsPunct(s[SkipSpace(s, p)])
         THEN <<s[SkipSpace(s, p)]>> \o SubSpaceBeforePunct(s, SkipSpace(s, p) + 1)
         ELSE <<s[p]>> \o SubSpaceBeforePunct(s, p + 1)

\* The lookahead ($| \s|[,.!?]) at position q (the character after the mark).
\* $ matches at the end and before a newline that ends the string.
PunctLookahead(s, q) ==
    \/ q > Len(s)
    \/ q = Len(s) /\ s[q] = "\n"
    \/ q + 1 <= Len(s) /\ s[q] = " " /\ IsSpace(s[q + 1])
    \/ IsPunct(s[q])

\* re.sub(r"([,.!?])(?!$| \s|[,.!?])", r"\1 ", s)
RECURSIVE SubSpaceAfterPunct(_, _)
SubSpaceAfterPunct(s, p) ==
    IF p > Len(s) THEN <<>>
    ELSE IF IsPunct(s[p]) /\ ~PunctLookahead(s, p + 1)
         THEN <<s[p], " ">> \o SubSpaceAfterPunct(s, p + 1)
         ELSE <<s[p]>> \o SubSpaceAfterPunct(s, p + 1)

\* End (exclusive) of the greedy match of (,\s*)+ that starts at the comma at p.
RECURSIVE CommaRunEnd(_, _)
CommaRunEnd(s, p) ==
    IF p <= Len(s) /\ s[p] = ","
    THEN CommaRunEnd(s, SkipSpace(s, p + 1))
    ELSE p

\* re.sub(r"(,\s*)+", ", ", s)
RECURSIVE SubCommaRuns(_, _)
SubCommaRuns(s, p) ==
    IF p > Len(s) THEN <<>>
    ELSE IF s[p] = ","
         THEN <<",", " ">> \o SubCommaRuns(s, CommaRunEnd(s, p))
         ELSE <<s[p]>> \o SubCommaRuns(s, p + 1)

\* Leading comma.
StripLeadingComma(s) ==
    IF startswith(s, <<",", " ">>) THEN Slice(s, 3, Len(s))
    ELSE IF startswith(s, <<",">>) THEN strip(Slice(s, 2, Len(s)))
    ELSE s

\* Leading "...".
StripLeadingEllipsis(s) ==
    IF startswith(s, <<".", ".", ".", " ">>) THEN Slice(s, 5, Len(s))
    ELSE IF startswith(s, <<".", ".", ".">>) THEN strip(Slice(s, 4, Len(s)))
    ELSE s

\* Trailing comma.
StripTrailingComma(s) ==
    IF endswith(s, <<",">>) THEN strip(Slice(s, 1, Len(s) - 1)) ELSE s

\* Trailing "...".
StripTrailingEllipsis(s) ==
    IF endswith(s, <<" ", ".", ".", ".">>) THEN strip(Slice(s, 1, Len(s) - 4))
    ELSE IF endswith(s, <<".", ".", ".">>) THEN strip(Slice(s, 1, Len(s) - 3))
    ELSE s

clean_transcript_text(text) ==
    LET s1 == CollapseWhitespace(text)
        s2 == RemoveFillers(s1, 1)
        s3 == CollapseWhitespace(s2)
        s4 == SubEllipsis(s3, 1)
        s5 == SubSpaceBeforePunct(s4, 1)
        s6 == SubSpaceAfterPunct(s5, 1)
        s7 == SubCommaRuns(s6, 1)
        s8 == CollapseWhitespace(s7)
        s9 == StripLeadingComma(s8)
        s10 == StripLeadingEllipsis(s9)
        s11 == StripTrailingComma(s10)
        s12 == StripTrailingEllipsis(s11)
    IN CollapseWhitespace(s12)

(***************************************************************************)
(* segment_text_by_word_count.                                             *)
(***************************************************************************)
\* End (exclusive) of the run of non-whitespace that starts at p.
RECURSIVE WordEnd(_, _)
WordEnd(s, p) ==
    IF p <= Len(s) /\ ~IsSpace(s[p]) THEN WordEnd(s, p + 1) ELSE p

\* str.split(): the whitespace-separated words of s from position p on.
RECURSIVE SplitFrom(_, _)
SplitFrom(s, p) ==
    LET a == SkipSpace(s, p)
    IN IF a > Len(s) THEN <<>>
       ELSE <<SubSeq(s, a, WordEnd(s, a) - 1)>> \o SplitFrom(s, WordEnd(s, a))
split(s) == SplitFrom(s, 1)

\* " ".join(words)
RECURSIVE join(_)
join(words) ==
    IF words = <<>> THEN <<>>
    ELSE IF Len(words) = 1 THEN words[1]
    ELSE words[1] \o <<" ">> \o join(Tail(words))

\* Variant: the words left in the open segment after the loop are dropped.
RECURSIVE SegmentLoop_drop_rest(_, _, _, _, _)
SegmentLoop_drop_rest(words, k, segments, current_segment_words, words_per_segment) ==
    IF k > Len(words)
    THEN segments
    ELSE LET cur == Append(current_segment_words, words[k])
         IN IF Len(cur) >= words_per_segment
            THEN SegmentLoop_drop_rest(words, k + 1, Append(segments, join(cur)), <<>>,
                                       words_per_segment)
            ELSE SegmentLoop_drop_rest(words, k + 1, segments, cur, words_per_segment)

\* Variant: a segment is closed when it is longer than words_per_segment.
RECURSIVE SegmentLoop_gt(_, _, _, _, _)
SegmentLoop_gt(words, k, segments, current_segment_words, words_per_segment) ==
    IF k > Len(words)
    THEN IF current_segment_words # <<>>
         THEN Append(segments, join(current_segment_words))
         ELSE segments
    ELSE LET cur == Append(current_segment_words, words[k])
         IN IF Len(cur) > words_per_segment
            THEN SegmentLoop_gt(words, k + 1, Append(segments, join(cur)), <<>>,
                                words_per_segment)
            ELSE SegmentLoop_gt(words, k + 1, segments, cur, words_per_segment)

\* Variant: the open segment is appended after the loop even when empty.
RECURSIVE SegmentLoop_flush_empty(_, _, _, _, _)
SegmentLoop_flush_empty(words, k, segments, current_segment_words, words_per_segment) ==
    IF k > Len(words)
    THEN Append(segments, join(current_segment_words))
    ELSE LET cur == Append(current_segment_words, words[k])
         IN IF Len(cur) >= words_per_segment
            THEN SegmentLoop_flush_empty(words, k + 1, Append(segments, join(cur)), <<>>,
                                         words_per_segment)
            ELSE SegmentLoop_flush_empty(words, k + 1, segments, cur, words_per_segment)

\* The for loop of segment_text_by_word_count over words[k..], with the
\* segments closed so far and the words of the open segment.
RECURSIVE SegmentLoop(_, _, _, _, _)
SegmentLoop(words, k, segments, current_segment_words, words_per_segment) ==
    IF k > Len(words)
    THEN IF current_segment_words # <<>>
         THEN Append(segments, join(current_segment_words))
         ELSE segments
    ELSE LET cur == Append(current_segment_words, words[k])
         IN IF Len(cur) >= words_per_segment
            THEN SegmentLoop(words, k + 1, Append(segments, join(cur)), <<>>,
                             words_per_segment)
            ELSE SegmentLoop(words, k + 1, segments, cur, words_per_segment)

segment_text_by_word_count(text, words_per_segment) ==
    IF text = <<>> THEN <<>>
    ELSE SegmentLoop(split(text), 1, <<>>, <<>>, words_per_segment)

(***************************************************************************)
(* format_plain_text_output: the document as its list of lines (the        *)
(* string returned is "\n".join of them).  A line is either a fixed text   *)
(* or a field's stripped content.                                          *)
(***************************************************************************)
Fixed(t) == [fixed |-> t]
Content(chars) == [content |-> chars]

\* segment_data.get(key)
get(d, key) == IF key \in DOMAIN d THEN d[key] ELSE None

\* Variant: the field is tested for truthiness (`if key_concepts:`).
FieldLines_truthy(value, title) ==
    IF value # None /\ value # <<>>
    THEN << Fixed(title \o ":"), Fixed("------------------------------"),
            Content(strip(value)), Fixed("") >>
    ELSE << Fixed(title \o ": Not generated for this segment."), Fixed("") >>

\* One field of a record: the heading, the rule and the stripped text, or
\* the "Not generated" line.
FieldLines(value, title) ==
    IF value # None
    THEN << Fixed(title \o ":"), Fixed("------------------------------"),
            Content(strip(value)), Fixed("") >>
    ELSE << Fixed(title \o ": Not generated for this segment."), Fixed("") >>

\* The body of the loop over enumerate(all_segments_data), from index k on.
RECURSIVE SegmentBlocks(_, _)
SegmentBlocks(all_segments_data, k) ==
    IF k > Len(all_segments_data) THEN <<>>
    ELSE << Fixed("--- SEGMENT " \o ToString(k) \o " ---"), Fixed("") >>
         \o FieldLines(get(all_segments_data[k], "key_concepts"), "Key Concepts & Definitions")
         \o FieldLines(get(all_segments_data[k], "qa_pairs"), "Practice Questions & Answers")
         \o << Fixed("========================================"), Fixed("") >>
         \o SegmentBlocks(all_segments_data, k + 1)

format_plain_text_output(all_segments_data) ==
    IF all_segments_data = <<>> THEN <<>>
    ELSE << Fixed("STUDY GUIDE"), Fixed("========================================"),
            Fixed("") >>
         \o SegmentBlocks(all_segments_data, 1)

(***************************************************************************)
(* The state of a run.                                                     *)
(***************************************************************************)
VARIABLES
    transcript_file,        \* content of the file args.transcript_file names, None: no such file
    words_per_segment,      \* args.words_per_segment
    output_file,            \* args.output_file, "" when not given
    api_key,                \* os.environ.get("OPENAI_API_KEY"), "" when unset
    prompt_files,           \* the template files present in PROMPT_DIR
    openai_client,          \* chain._openai_client, NoClient for None
    client_inits,           \* how many times OpenAI(api_key=...) was constructed
    pc,                     \* where the caller of call_llm stands
    cleaned_content,        \* main: cleaned_content
    text_segments,          \* main: text_segments
    seg_index,              \* main: 1-based index of the segment in the loop
    segment_data,           \* main: the record being filled for this segment
    all_processed_segments, \* main: all_processed_segments
    calls,                  \* the call_llm invocations so far, in order
    attempt,                \* call_llm: attempt, of the invocation in progress
    delay,                  \* call_llm: <<delay>> while time.sleep(delay) is in progress
    events,                 \* provider requests and backoff sleeps, in order
    console,                \* what was printed
    written_file,           \* the contents written to output_file, in order
    exit_code               \* process exit status (read once pc = "done")

env_vars == <<transcript_file, words_per_segment, output_file, api_key, prompt_files>>
main_vars == <<cleaned_content, text_segments, seg_index, segment_data,
               all_processed_segments,
               console, written_file, exit_code>>
call_vars == <<openai_client, client_inits, calls, attempt, delay, events>>
vars == <<env_vars, main_vars, call_vars, pc>>

(***************************************************************************)
(* llm_chain/chain.py                                                      *)
(***************************************************************************)
EXTRACT_PROMPT == "extract_concepts_prompt.txt"
QA_PROMPT == "generate_qa_prompt.txt"
PromptNames == {EXTRACT_PROMPT, QA_PROMPT}

\* Defaults of call_llm's parameters.
DefaultMaxRetries == 3
DefaultBaseDelay == 1

\* Errors client.chat.completions.create can raise.
TransientErrors == {"APIError", "RateLimitError"}
UnexpectedErrors == {"Exception"}

\* response.choices[0].message.content of a successful request.
ProviderContents == {None, <<>>, <<"o", "k">>}

\* The invocation in progress is the last one of calls.
CurrentCall == calls[Len(calls)]
Running == calls # <<>> /\ CurrentCall.state = "running"
Finished == calls # <<>> /\ CurrentCall.state # "running"

\* The invocation in progress returns result.
Return(result) ==
    [calls EXCEPT ![Len(calls)].state = "returned", ![Len(calls)].result = result]

NoClient == "None"
OpenAI(key) == "OpenAI(api_key=" \o key \o ")"

\* The value of delay when no time.sleep is in progress.
NotSleeping == <<>>

\* get_openai_api_key raises ValueError: `if not api_key`.
MissingApiKey == api_key = ""

\* Variant: _initialize_openai_client builds a client on every invocation.
call_llm_begin_new_client(prompt, max_retries, base_delay_seconds) ==
    LET new == [prompt |-> prompt, max_retries |-> max_retries,
                base_delay_seconds |-> base_delay_seconds,
                state |-> "running", result |-> None, error |-> ""]
    IN /\ attempt' = 0
       /\ delay' = NotSleeping
       /\ UNCHANGED events
       /\ IF MissingApiKey
          THEN /\ calls' = Append(calls, [new EXCEPT !.state = "raised",
                                                     !.error = "ValueError"])
               /\ UNCHANGED <<openai_client, client_inits>>
          ELSE /\ openai_client' = OpenAI(api_key)
               /\ client_inits' = client_inits + 1
               /\ calls' = Append(calls,
                                  IF 0 <= max_retries THEN new
                                  ELSE [new EXCEPT !.state = "returned"])

\* Variant: the loop body runs before the first test of its condition.
call_llm_begin_do_while(prompt, max_retries, base_delay_seconds) ==
    LET new == [prompt |-> prompt, max_retries |-> max_retries,
                base_delay_seconds |-> base_delay_seconds,
                state |-> "running", result |-> None, error |-> ""]
    IN /\ attempt' = 0
       /\ delay' = NotSleeping
       /\ UNCHANGED events
       /\ IF openai_client = NoClient /\ MissingApiKey
          THEN /\ calls' = Append(calls, [new EXCEPT !.state = "raised",
                                                     !.error = "ValueError"])
               /\ UNCHANGED <<openai_client, client_inits>>
          ELSE /\ IF openai_client = NoClient
                  THEN /\ openai_client' = OpenAI(api_key)
                       /\ client_inits' = client_inits + 1
                  ELSE UNCHANGED <<openai_client, client_inits>>
               /\ calls' = Append(calls, new)

\* Variant: the attempt counter is shared by all invocations (never reset).
call_llm_begin_shared_attempt(prompt, max_retries, base_delay_seconds) ==
    LET new == [prompt |-> prompt, max_retries |-> max_retries,
                base_delay_seconds |-> base_delay_seconds,
                state |-> "running", result |-> None, error |-> ""]
    IN /\ UNCHANGED <<attempt, events>>
       /\ delay' = NotSleeping
       /\ IF openai_client = NoClient /\ MissingApiKey
          THEN /\ calls' = Append(calls, [new EXCEPT !.state = "raised",
                                                     !.error = "ValueError"])
               /\ UNCHANGED <<openai_client, client_inits>>
          ELSE /\ IF openai_client = NoClient
                  THEN /\ openai_client' = OpenAI(api_key)
                       /\ client_inits' = client_inits + 1
                  ELSE UNCHANGED <<openai_client, client_inits>>
               /\ calls' = Append(calls,
                                  IF attempt <= max_retries THEN new
                                  ELSE [new EXCEPT !.state = "returned"])

\* Variant: the client is built without get_openai_api_key's check.
call_llm_begin_unchecked(prompt, max_retries, base_delay_seconds) ==
    LET new == [prompt |-> prompt, max_retries |-> max_retries,
                base_delay_seconds |-> base_delay_seconds,
                state |-> "running", result |-> None, error |-> ""]
    IN /\ attempt' = 0
       /\ delay' = NotSleeping
       /\ UNCHANGED events
       /\ IF openai_client = NoClient
          THEN /\ openai_client' = OpenAI(api_key)
               /\ client_inits' = client_inits + 1
          ELSE UNCHANGED <<openai_client, client_inits>>
       /\ calls' = Append(calls,
                          IF 0 <= max_retries THEN new
                          ELSE [new EXCEPT !.state = "returned"])

\* call_llm up to the first test of the while condition:
\* _initialize_openai_client(), attempt = 0, while attempt <= max_retries.
call_llm_begin(prompt, max_retries, base_delay_seconds) ==
    LET new == [prompt |-> prompt, max_retries |-> max_retries,
                base_delay_seconds |-> base_delay_seconds,
                state |-> "running", result |-> None, error |-> ""]
    IN /\ attempt' = 0
       /\ delay' = NotSleeping
       /\ UNCHANGED events
       /\ IF openai_client = NoClient /\ MissingApiKey
          THEN /\ calls' = Append(calls, [new EXCEPT !.state = "raised",
                                                     !.error = "ValueError"])
               /\ UNCHANGED <<openai_client, client_inits>>
          ELSE /\ IF openai_client = NoClient
                  THEN /\ openai_client' = OpenAI(api_key)
                       /\ client_inits' = client_inits + 1
                  ELSE UNCHANGED <<openai_client, client_inits>>
               /\ calls' = Append(calls,
                                  IF 0 <= max_retries THEN new
                                  ELSE [new EXCEPT !.state = "returned"])

\* One entry of events: a request ("create") with the error it raised ("" for
\* none) or the content it returned, or a backoff sleep.
Event(op, error, content) ==
    [op |-> op, inv |-> Len(calls), attempt |-> attempt,
     error |-> error, content |-> content]

\* base ** exponent
RECURSIVE Pow(_, _)
Pow(base, exponent) == IF exponent = 0 THEN 1 ELSE base * Pow(base, exponent - 1)

\* Durations are counted in hundredths of a second, to the nearest one.
\* random.uniform(0, 0.1 * power) is any duration from 0 to a tenth of power
\* seconds, which is 10 * power hundredths.
Jitters(power) == 0..(10 * power)

\* Variant: the delay doubles with every attempt (base_delay * 2 ** attempt).
Delay_doubling(base_delay_seconds, i, jitter) ==
    100 * (base_delay_seconds * Pow(2, i)) + jitter

\* delay = (base_delay_seconds ** attempt)
\*         + random.uniform(0, 0.1 * (base_delay_seconds ** attempt)),
\* in hundredths of a second, for a jitter in hundredths of a second.
Delay(base_delay_seconds, i, jitter) ==
    100 * Pow(base_delay_seconds, i) + jitter

\* The failed request, then time.sleep(delay) begins, for any jitter that
\* random.uniform can give.
Backoff(e) ==
    /\ events' = events \o << Event("create", e, None), Event("sleep", "", None) >>
    /\ \E jitter \in Jitters(Pow(CurrentCall.base_delay_seconds, attempt)) :
           delay' = << Delay(CurrentCall.base_delay_seconds, attempt, jitter) >>

\* Variant: an empty or absent content is turned into None.
call_llm_success_falsy(content) ==
    /\ Running
    /\ delay = NotSleeping
    /\ events' = Append(events, Event("create", "", content))
    /\ calls' = Return(IF content = <<>> THEN None ELSE content)
    /\ UNCHANGED <<openai_client, client_inits, attempt, delay>>

\* The request succeeds: return content.
call_llm_success(content) ==
    /\ Running
    /\ delay = NotSleeping
    /\ events' = Append(events, Event("create", "", content))
    /\ calls' = Return(content)
    /\ UNCHANGED <<openai_client, client_inits, attempt, delay>>

\* Variant: the retry test is off by one (attempt + 1 < max_retries).
call_llm_transient_error_early(e) ==
    /\ Running
    /\ delay = NotSleeping
    /\ IF attempt + 1 < CurrentCall.max_retries
       THEN /\ Backoff(e)
            /\ UNCHANGED <<calls, attempt>>
       ELSE /\ events' = Append(events, Event("create", e, None))
            /\ calls' = Return(None)
            /\ UNCHANGED <<attempt, delay>>
    /\ UNCHANGED <<openai_client, client_inits>>

\* Variant: the backoff sleep is made after the last failed attempt too.
call_llm_transient_error_sleep_last(e) ==
    /\ Running
    /\ delay = NotSleeping
    /\ Backoff(e)
    /\ IF attempt < CurrentCall.max_retries
       THEN UNCHANGED <<calls, attempt>>
       ELSE /\ calls' = Return(None)
            /\ UNCHANGED attempt
    /\ UNCHANGED <<openai_client, client_inits>>

\* Variant: the retry test admits the last attempt too (attempt <= max_retries).
call_llm_transient_error_le(e) ==
    /\ Running
    /\ delay = NotSleeping
    /\ IF attempt <= CurrentCall.max_retries
       THEN /\ Backoff(e)
            /\ UNCHANGED <<calls, attempt>>
       ELSE /\ events' = Append(events, Event("create", e, None))
            /\ calls' = Return(None)
            /\ UNCHANGED <<attempt, delay>>
    /\ UNCHANGED <<openai_client, client_inits>>

\* except (APIError, RateLimitError): compute delay and enter
\* time.sleep(delay) while attempt < max_retries, return None otherwise.
call_llm_transient_error(e) ==
    /\ Running
    /\ delay = NotSleeping
    /\ IF attempt < CurrentCall.max_retries
       THEN /\ Backoff(e)
            /\ UNCHANGED <<calls, attempt>>
       ELSE /\ events' = Append(events, Event("create", e, None))
            /\ calls' = Return(None)
            /\ UNCHANGED <<attempt, delay>>
    /\ UNCHANGED <<openai_client, client_inits>>

\* time.sleep(delay) returns; attempt += 1; then the while condition again,
\* with `return None` after the loop.
call_llm_sleep_returns ==
    /\ Running
    /\ delay # NotSleeping
    /\ delay' = NotSleeping
    /\ attempt' = attempt + 1
    /\ calls' = IF attempt + 1 <= CurrentCall.max_retries
                 THEN calls ELSE Return(None)
    /\ UNCHANGED <<openai_client, client_inits, events>>

\* Variant: no `except Exception`, the error leaves call_llm.
call_llm_unexpected_error_raised(e) ==
    /\ Running
    /\ delay = NotSleeping
    /\ events' = Append(events, Event("create", e, None))
    /\ calls' = [calls EXCEPT ![Len(calls)].state = "raised", ![Len(calls)].error = e]
    /\ UNCHANGED <<openai_client, client_inits, attempt, delay>>

\* Variant: every error is retried like a transient one.
call_llm_unexpected_error_retried(e) ==
    /\ Running
    /\ delay = NotSleeping
    /\ IF attempt < CurrentCall.max_retries
       THEN /\ Backoff(e)
            /\ UNCHANGED <<calls, attempt>>
       ELSE /\ events' = Append(events, Event("create", e, None))
            /\ calls' = Return(None)
            /\ UNCHANGED <<attempt, delay>>
    /\ UNCHANGED <<openai_client, client_inits>>

\* except Exception: return None, no retry.
call_llm_unexpected_error(e) ==
    /\ Running
    /\ delay = NotSleeping
    /\ events' = Append(events, Event("create", e, None))
    /\ calls' = Return(None)
    /\ UNCHANGED <<openai_client, client_inits, attempt, delay>>

\* _load_prompt_template(name) raises FileNotFoundError.
MissingTemplate(name) == name \notin prompt_files

\* _load_prompt_template(name).format(text_segment=text_segment)
Prompt(name, text_segment) == [template |-> name, text_segment |-> text_segment]

\* What extract_key_concepts / generate_qa_pairs return once their call_llm
\* has finished: its value, or None from `except Exception`.
WrapperResult == IF CurrentCall.state = "raised" THEN None ELSE CurrentCall.result

(***************************************************************************)
(* main.py                                                                 *)
(***************************************************************************)
\* `if key_concepts_output:` / `if qa_pairs_output:`
Truthy(v) == v # None /\ v # <<>>
StoredField(v) == IF Truthy(v) THEN v ELSE None

Printed(what, body) == [what |-> what, body |-> body]

\* A dict with string keys: {} and d[k] = v.
EmptyDict == [k \in {} |-> None]
DictSet(d, k, v) == [x \in DOMAIN d \cup {k} |-> IF x = k THEN v ELSE d[x]]

\* Variant: a transcript without segments ends the run with sys.exit(1).
main_parse_exit_on_empty ==
    /\ pc = "start"
    /\ IF transcript_file = None
       THEN /\ console' = Append(console, Printed("error: transcript not found", <<>>))
            /\ exit_code' = 1
            /\ pc' = "done"
            /\ UNCHANGED <<cleaned_content, text_segments, seg_index>>
       ELSE LET cleaned == clean_transcript_text(transcript_file)
                segs == segment_text_by_word_count(cleaned, words_per_segment)
            IN /\ cleaned_content' = cleaned
               /\ text_segments' = segs
               /\ IF segs = <<>>
                  THEN /\ console' = Append(console, Printed("no content", <<>>))
                       /\ exit_code' = 1
                       /\ pc' = "done"
                       /\ UNCHANGED seg_index
                  ELSE /\ seg_index' = 1
                       /\ pc' = "extract"
                       /\ UNCHANGED <<console, exit_code>>
    /\ UNCHANGED <<env_vars, segment_data, all_processed_segments, written_file, call_vars>>

\* Step 1: read, clean and segment the transcript.
main_parse ==
    /\ pc = "start"
    /\ IF transcript_file = None
       THEN \* except FileNotFoundError: sys.exit(1)
            /\ console' = Append(console, Printed("error: transcript not found", <<>>))
            /\ exit_code' = 1
            /\ pc' = "done"
            /\ UNCHANGED <<cleaned_content, text_segments, seg_index>>
       ELSE LET cleaned == clean_transcript_text(transcript_file)
                segs == segment_text_by_word_count(cleaned, words_per_segment)
            IN /\ cleaned_content' = cleaned
               /\ text_segments' = segs
               /\ IF segs = <<>>
                  THEN /\ console' = Append(console, Printed("no content", <<>>))
                       /\ pc' = "done"
                       /\ UNCHANGED <<seg_index, exit_code>>
                  ELSE /\ seg_index' = 1
                       /\ pc' = "extract"
                       /\ UNCHANGED <<console, exit_code>>
    /\ UNCHANGED <<env_vars, segment_data, all_processed_segments, written_file, call_vars>>

\* Variant: the concepts are extracted from the segments in reverse order.
main_extract_key_concepts_reversed ==
    /\ pc = "extract"
    /\ IF MissingTemplate(EXTRACT_PROMPT)
       THEN /\ segment_data' = DictSet(EmptyDict, "key_concepts", None)
            /\ pc' = "qa"
            /\ UNCHANGED call_vars
       ELSE /\ call_llm_begin(Prompt(EXTRACT_PROMPT,
                                     text_segments[Len(text_segments) + 1 - seg_index]),
                              DefaultMaxRetries, DefaultBaseDelay)
            /\ pc' = "extract_call"
            /\ UNCHANGED segment_data
    /\ UNCHANGED <<env_vars, cleaned_content, text_segments, seg_index, all_processed_segments,
                   console, written_file, exit_code>>

\* key_concepts_output = extract_key_concepts(segment), up to the first
\* provider request; without a prompt the wrapper returns None at once.
main_extract_key_concepts ==
    /\ pc = "extract"
    /\ IF MissingTemplate(EXTRACT_PROMPT)
       THEN /\ segment_data' = DictSet(EmptyDict, "key_concepts", None)
            /\ pc' = "qa"
            /\ UNCHANGED call_vars
       ELSE /\ call_llm_begin(Prompt(EXTRACT_PROMPT, text_segments[seg_index]),
                              DefaultMaxRetries, DefaultBaseDelay)
            /\ pc' = "extract_call"
            /\ UNCHANGED segment_data
    /\ UNCHANGED <<env_vars, cleaned_content, text_segments, seg_index, all_processed_segments,
                   console, written_file, exit_code>>

\* Variant: a failed extraction ends the run with sys.exit(1).
main_store_key_concepts_fatal ==
    /\ pc = "extract_call"
    /\ Finished
    /\ IF Truthy(WrapperResult)
       THEN /\ segment_data' = DictSet(EmptyDict, "key_concepts", WrapperResult)
            /\ pc' = "qa"
            /\ UNCHANGED exit_code
       ELSE /\ exit_code' = 1
            /\ pc' = "done"
            /\ UNCHANGED segment_data
    /\ UNCHANGED <<env_vars, cleaned_content, text_segments, seg_index, all_processed_segments,
                   console, written_file, call_vars>>

\* extract_key_concepts returns; main stores the field.
main_store_key_concepts ==
    /\ pc = "extract_call"
    /\ Finished
    /\ segment_data' = DictSet(EmptyDict, "key_concepts", StoredField(WrapperResult))
    /\ pc' = "qa"
    /\ UNCHANGED <<env_vars, cleaned_content, text_segments, seg_index, all_processed_segments,
                   console, written_file, exit_code, call_vars>>

\* Variant: the record is inserted at the front of the list.
AppendRecordFront(qa) ==
    /\ all_processed_segments' =
           <<DictSet(segment_data, "qa_pairs", qa)>> \o all_processed_segments
    /\ segment_data' = EmptyDict
    /\ IF seg_index < Len(text_segments)
       THEN seg_index' = seg_index + 1 /\ pc' = "extract"
       ELSE UNCHANGED seg_index /\ pc' = "output"

\* qa_pairs_output = generate_qa_pairs(segment), up to the first request.
\* The record is appended and the loop advances when the wrapper returns.
AppendRecord(qa) ==
    /\ all_processed_segments' =
           Append(all_processed_segments, DictSet(segment_data, "qa_pairs", qa))
    /\ segment_data' = EmptyDict
    /\ IF seg_index < Len(text_segments)
       THEN seg_index' = seg_index + 1 /\ pc' = "extract"
       ELSE UNCHANGED seg_index /\ pc' = "output"

main_generate_qa_pairs ==
    /\ pc = "qa"
    /\ IF MissingTemplate(QA_PROMPT)
       THEN /\ AppendRecord(None)
            /\ UNCHANGED call_vars
       ELSE /\ call_llm_begin(Prompt(QA_PROMPT, text_segments[seg_index]),
                              DefaultMaxRetries, DefaultBaseDelay)
            /\ pc' = "qa_call"
            /\ UNCHANGED <<segment_data, seg_index, all_processed_segments>>
    /\ UNCHANGED <<env_vars, cleaned_content, text_segments, console, written_file, exit_code>>

main_store_qa_pairs ==
    /\ pc = "qa_call"
    /\ Finished
    /\ AppendRecord(StoredField(WrapperResult))
    /\ UNCHANGED <<env_vars, cleaned_content, text_segments, console, written_file, exit_code, call_vars>>

\* Steps 3 and 4 without an output file: print the guide.
main_output_console ==
    /\ pc = "output"
    /\ output_file = ""
    /\ console' = Append(console,
                         Printed("guide", format_plain_text_output(all_processed_segments)))
    /\ pc' = "done"
    /\ UNCHANGED <<env_vars, cleaned_content, text_segments, seg_index, segment_data,
                   all_processed_segments, written_file, exit_code, call_vars>>

\* Steps 3 and 4 with an output file that can be written.
main_output_file ==
    /\ pc = "output"
    /\ output_file # ""
    /\ written_file' = Append(written_file, format_plain_text_output(all_processed_segments))
    /\ console' = Append(console, Printed("saved", <<>>))
    /\ pc' = "done"
    /\ UNCHANGED <<env_vars, cleaned_content, text_segments, seg_index, segment_data,
                   all_processed_segments, exit_code, call_vars>>

\* Variant: an IOError of open/write ends the run with sys.exit(1).
main_output_ioerror_fatal ==
    /\ pc = "output"
    /\ output_file # ""
    /\ console' = Append(console, Printed("error: could not write", <<>>))
    /\ exit_code' = 1
    /\ pc' = "done"
    /\ UNCHANGED <<env_vars, cleaned_content, text_segments, seg_index, segment_data,
                   all_processed_segments, written_file, call_vars>>

\* What output_file holds when the write failed after open had created it:
\* some proper prefix of the guide, the empty one included.
Truncated(guide) == << [truncated |-> guide] >>

\* Steps 3 and 4 when open or write raises IOError: print the guide instead.
\* Either open raised and there is no file, or open created the file and
\* the write (or the flush at close) raised with part of the guide written.
main_output_ioerror ==
    /\ pc = "output"
    /\ output_file # ""
    /\ \/ UNCHANGED written_file
       \/ written_file' =
              Append(written_file,
                     Truncated(format_plain_text_output(all_processed_segments)))
    /\ console' = console \o
           << Printed("error: could not write", <<>>),
              Printed("guide", format_plain_text_output(all_processed_segments)) >>
    /\ pc' = "done"
    /\ UNCHANGED <<env_vars, cleaned_content, text_segments, seg_index, segment_data,
                   all_processed_segments, exit_code, call_vars>>

(***************************************************************************)
(* A run of main.                                                          *)
(***************************************************************************)
Transcripts ==
    { <<>>,
      <<" ", "\n">>,
      <<"U","m",","," ","s","o",".",".",".">>,
      <<"U","h",","," ","a","l","p","h","a">>,
      <<"a","l","p","h","a",","," ","u","m",","," ","b","e","t","a",".">> }
WordsPerSegment == {0, 1, 2}

\* The transient fault explored in a run of main is rate limiting.
MainTransientErrors == {"RateLimitError"}

InitProgram ==
    /\ openai_client = NoClient
    /\ client_inits = 0
    /\ text_segments = <<>>
    /\ seg_index = 0
    /\ segment_data = EmptyDict
    /\ all_processed_segments = <<>>
    /\ calls = <<>>
    /\ attempt = 0
    /\ delay = NotSleeping
    /\ events = <<>>
    /\ console = <<>>
    /\ written_file = <<>>
    /\ exit_code = 0

Init ==
    /\ transcript_file \in Transcripts \cup {None}
    /\ words_per_segment \in WordsPerSegment
    /\ output_file \in {"", "guide.txt"}
    /\ api_key \in {"", "sk-test"}
    /\ prompt_files \in SUBSET PromptNames
    /\ pc = "start"
    /\ cleaned_content = <<>>
    /\ InitProgram

ProviderMain ==
    /\ pc \in {"extract_call", "qa_call"}
    /\ \/ \E content \in ProviderContents : call_llm_success(content)
       \/ \E e \in MainTransientErrors : call_llm_transient_error(e)
       \/ call_llm_sleep_returns
       \/ \E e \in UnexpectedErrors : call_llm_unexpected_error(e)
    /\ UNCHANGED <<env_vars, main_vars, pc>>

Next ==
    \/ main_parse
    \/ main_extract_key_concepts
    \/ main_store_key_concepts
    \/ main_generate_qa_pairs
    \/ main_store_qa_pairs
    \/ main_output_console
    \/ main_output_file
    \/ main_output_ioerror
    \/ ProviderMain

Spec == Init /\ [][Next]_vars

(***************************************************************************)
(* One direct invocation of call_llm, as the unit tests make it: any       *)
(* max_retries up to MaxRetries, every provider error, every jitter.       *)
(***************************************************************************)
MaxRetries == 3

TestPrompt == Prompt("test", <<"p">>)

\* base_delay_seconds of the invocation: the default, no delay, a doubling one.
BaseDelays == {0, DefaultBaseDelay, 2}

test_call_llm ==
    /\ pc = "test"
    /\ \E r \in -1..MaxRetries, base_delay_seconds \in BaseDelays :
           call_llm_begin(TestPrompt, r, base_delay_seconds)
    /\ pc' = "test_call"
    /\ UNCHANGED <<env_vars, main_vars>>

ProviderCall ==
    /\ pc = "test_call"
    /\ \/ \E content \in ProviderContents : call_llm_success(content)
       \/ \E e \in TransientErrors : call_llm_transient_error(e)
       \/ call_llm_sleep_returns
       \/ \E e \in UnexpectedErrors : call_llm_unexpected_error(e)
    /\ UNCHANGED <<env_vars, main_vars, pc>>

InitCall ==
    /\ transcript_file = None
    /\ words_per_segment = 0
    /\ output_file = ""
    /\ api_key \in {"", "sk-test"}
    /\ prompt_files = {}
    /\ pc = "test"
    /\ cleaned_content = <<>>
    /\ InitProgram

NextCall == test_call_llm \/ ProviderCall

SpecCall == InitCall /\ [][NextCall]_vars

(***************************************************************************)
(* One direct call of segment_text_by_word_count, as the unit tests make   *)
(* it: every text of up to MaxTextLen characters over two letters and two  *)
(* kinds of whitespace, the texts of the tests, and every words_per_segment*)
(* from -1 to MaxWordsPerSegment.                                          *)
(***************************************************************************)
MaxTextLen == 5
MaxWordsPerSegment == 3

\* All texts of at most n characters over alphabet.
Texts(alphabet, n) == UNION { [1..k -> alphabet] : k \in 0..n }

\* " ".join([word] * n)
RECURSIVE Repeat(_, _)
Repeat(word, n) == IF n = 0 THEN <<>> ELSE <<word>> \o Repeat(word, n - 1)

Word == <<"w", "o", "r", "d">>

SegmenterTexts ==
    Texts({"a", "b", " ", "\n"}, MaxTextLen)
        \cup { join(Repeat(Word, 10)), join(Repeat(Word, 7)),
               join(<< <<"o","n","e">>, <<"t","w","o">>, <<"t","h","r","e","e">>,
                       <<"f","o","u","r">>, <<"f","i","v","e">>, <<"s","i","x">> >>) }

test_segment_text_by_word_count ==
    /\ pc = "test_segment"
    /\ text_segments' = segment_text_by_word_count(cleaned_content, words_per_segment)
    /\ pc' = "segmented"
    /\ UNCHANGED <<env_vars, cleaned_content, seg_index, segment_data,
                   all_processed_segments, console, written_file, exit_code, call_vars>>

InitSegment ==
    /\ transcript_file = None
    /\ words_per_segment \in -1..MaxWordsPerSegment
    /\ output_file = ""
    /\ api_key = ""
    /\ prompt_files = {}
    /\ pc = "test_segment"
    /\ cleaned_content \in SegmenterTexts
    /\ InitProgram

NextSegment == test_segment_text_by_word_count

SpecSegment == InitSegment /\ [][NextSegment]_vars

(***************************************************************************)
(* Direct calls of clean_transcript_text, as the unit tests make them: on  *)
(* every text of up to MaxTokens tokens (a filler, two other words, space, *)
(* comma, period, ellipsis), on texts of the tests and on texts with a     *)
(* filler between the two words of another filler; then once more on the   *)
(* text returned.                                                          *)
(***************************************************************************)
MaxTokens == 4

CleanerTokens ==
    { <<"s","o">>, <<"y","o","u">>, <<"k","n","o","w">>,
      <<" ">>, <<",">>, <<".">>, <<".",".",".">> }

\* "".join(tokens)
RECURSIVE Concat(_)
Concat(tokens) == IF tokens = <<>> THEN <<>> ELSE Head(tokens) \o Concat(Tail(tokens))

\* Texts of the input_text column of test_clean_transcript_text, and the
\* word "something".
CleanerTestTexts ==
    { <<"n","o"," ","f","i","l","l","e","r"," ","w","o","r","d","s"," ",
        "h","e","r","e">>,
      <<" "," ","l","e","a","d","i","n","g"," ","a","n","d"," ",
        "t","r","a","i","l","i","n","g"," ","s","p","a","c","e","s"," "," ">>,
      <<"U","M",","," ","S","o",","," ","L","I","K","E",".",".","."," ",
        "v","e","r","y"," ","l","o","u","d"," ","f","i","l","l","e","r","s","!">>,
      <<"w","o","r","d"," ","u","m"," ","w","o","r","d">>,
      <<"n","e","w","l","i","n","e","s","\n","a","n","d","\t","t","a","b","s">>,
      <<"s","o","m","e","t","h","i","n","g">> }

\* A filler between the words "you" and "know".
FillerTexts ==
    { <<"y","o","u"," ","s","o"," ","k","n","o","w">>,
      <<"Y","o","u"," ","U","M"," ","k","n","o","w",".">> }

\* Texts with letters and whitespace beyond ASCII next to a filler.
Latin1Texts ==
    { <<"S","o","ß","e">>, <<"s","o","ñ","a","r">>, <<"é","s","o">>,
      <<"a"," ","s","o"," ","b">>, <<"s","o","\f","a">> }

CleanerTexts ==
    { Concat(tokens) : tokens \in Texts(CleanerTokens, MaxTokens) }
        \cup CleanerTestTexts \cup FillerTexts \cup Latin1Texts

\* cleaned = clean_transcript_text(input_text)
test_clean_transcript_text ==
    /\ pc = "test_clean"
    /\ cleaned_content' = clean_transcript_text(transcript_file)
    /\ pc' = "cleaned"
    /\ UNCHANGED <<env_vars, text_segments, seg_index, segment_data,
                   all_processed_segments, console, written_file, exit_code, call_vars>>

\* cleaned = clean_transcript_text(cleaned)
test_clean_transcript_text_again ==
    /\ pc = "cleaned"
    /\ cleaned_content' = clean_transcript_text(cleaned_content)
    /\ pc' = "cleaned_again"
    /\ UNCHANGED <<env_vars, text_segments, seg_index, segment_data,
                   all_processed_segments, console, written_file, exit_code, call_vars>>

InitClean ==
    /\ transcript_file \in CleanerTexts
    /\ words_per_segment = 0
    /\ output_file = ""
    /\ api_key = ""
    /\ prompt_files = {}
    /\ pc = "test_clean"
    /\ cleaned_content = <<>>
    /\ InitProgram

NextClean == test_clean_transcript_text \/ test_clean_transcript_text_again

SpecClean == InitClean /\ [][NextClean]_vars

(***************************************************************************)
(* One direct call of format_plain_text_output, as the unit tests make it: *)
(* on every list of up to MaxRecords records whose fields are None, the    *)
(* empty string, a text, a text within whitespace, or absent from the      *)
(* dict.                                                                   *)
(***************************************************************************)
MaxRecords == 2

Absent == <<"absent">>
FieldValues == {None, <<>>, <<"a">>, <<" ", "b", "\n">>}

\* The dict with the given fields; a field that is Absent is no key of it.
Record(key_concepts, qa_pairs) ==
    LET d == IF key_concepts = Absent THEN EmptyDict
             ELSE DictSet(EmptyDict, "key_concepts", key_concepts)
    IN IF qa_pairs = Absent THEN d ELSE DictSet(d, "qa_pairs", qa_pairs)

Records ==
    { Record(kc, qa) : kc \in FieldValues \cup {Absent}, qa \in FieldValues \cup {Absent} }

\* output = format_plain_text_output(data)
test_format_plain_text_output ==
    /\ pc = "test_format"
    /\ console' = <<Printed("guide", format_plain_text_output(all_processed_segments))>>
    /\ pc' = "formatted"
    /\ UNCHANGED <<env_vars, cleaned_content, text_segments, seg_index, segment_data,
                   all_processed_segments, written_file, exit_code, call_vars>>

InitFormat ==
    /\ transcript_file = None
    /\ words_per_segment = 0
    /\ output_file = ""
    /\ api_key = ""
    /\ prompt_files = {}
    /\ pc = "test_format"
    /\ cleaned_content = <<>>
    /\ openai_client = NoClient
    /\ client_inits = 0
    /\ text_segments = <<>>
    /\ seg_index = 0
    /\ segment_data = EmptyDict
    /\ all_processed_segments \in Texts(Records, MaxRecords)
    /\ calls = <<>>
    /\ attempt = 0
    /\ delay = NotSleeping
    /\ events = <<>>
    /\ console = <<>>
    /\ written_file = <<>>
    /\ exit_code = 0

NextFormat == test_format_plain_text_output

SpecFormat == InitFormat /\ [][NextFormat]_vars

(***************************************************************************)
(* Vocabulary of the properties.                                           *)
(***************************************************************************)
\* The provider requests of invocation n, in order.
Requests(n) == SelectSeq(events, LAMBDA e : e.op = "create" /\ e.inv = n)

\* Invocation n got past _initialize_openai_client.
HasClient(n) == calls[n].state # "raised"

\* The first k requests of r all raised a transient error.
TransientPrefix(r, k) == Len(r) >= k /\ \A j \in 1..k : r[j].error \in TransientErrors

\* Invocation n ended on a provider failure: retries exhausted or an
\* unexpected error.
ProviderFailed(n) ==
    /\ calls[n].state = "returned"
    /\ Requests(n) # <<>>
    /\ Requests(n)[Len(Requests(n))].error # ""

\* Invocation n ended on a successful request.
ProviderSucceeded(n) ==
    /\ calls[n].state = "returned"
    /\ Requests(n) # <<>>
    /\ Requests(n)[Len(Requests(n))].error = ""

(***************************************************************************)
(* C1. call_llm, N transient errors then a success, max_retries >= N: the  *)
(* provider is called exactly N+1 times and the successful response's text *)
(* is returned.  After N <= max_retries transient errors and nothing else  *)
(* the invocation goes on to another request; once request N+1 succeeds it *)
(* is the last one and the invocation has returned its content.            *)
(***************************************************************************)
C1_RetryThenSuccess ==
    \A n \in 1..Len(calls) :
        HasClient(n) =>
            \A N \in 0..calls[n].max_retries :
                LET r == Requests(n)
                IN TransientPrefix(r, N) =>
                       /\ Len(r) = N => calls[n].state = "running"
                       /\ (Len(r) > N /\ r[N + 1].error = "") =>
                              /\ Len(r) = N + 1
                              /\ calls[n].state = "returned"
                              /\ calls[n].result = r[N + 1].content

\* Two transient errors of both kinds, then a text, with max_retries >= 2.
C1_Witness ==
    \E n \in 1..Len(calls) :
        LET r == Requests(n)
        IN /\ calls[n].max_retries >= 2
           /\ Len(r) = 3
           /\ r[1].error = "RateLimitError"
           /\ r[2].error = "APIError"
           /\ r[3].error = "" /\ r[3].content = <<"o", "k">>
           /\ calls[n].state = "returned"
           /\ calls[n].result = <<"o", "k">>

(***************************************************************************)
(* C2. call_llm with max_retries = R >= 0 and a provider that raises a     *)
(* transient error on every request: exactly R+1 requests, then the        *)
(* Failure value None.  While all requests so far were transient errors    *)
(* there are at most R+1 of them, fewer than R+1 means the invocation is   *)
(* still going on, and R+1 means it has returned None.                     *)
(***************************************************************************)
C2_ExhaustedRetries ==
    \A n \in 1..Len(calls) :
        (HasClient(n) /\ calls[n].max_retries >= 0) =>
            LET r == Requests(n)
                R == calls[n].max_retries
            IN TransientPrefix(r, Len(r)) =>
                   /\ Len(r) <= R + 1
                   /\ Len(r) <= R => calls[n].state = "running"
                   /\ Len(r) = R + 1 =>
                          calls[n].state = "returned" /\ calls[n].result = None

\* max_retries = 2, three transient errors, None returned.
C2_Witness ==
    \E n \in 1..Len(calls) :
        /\ calls[n].max_retries = 2
        /\ Len(Requests(n)) = 3
        /\ TransientPrefix(Requests(n), 3)
        /\ calls[n].state = "returned"
        /\ calls[n].result = None

(***************************************************************************)
(* C3. An unexpected error is never retried: the request that raised it    *)
(* is the last request of its invocation, which has returned None; on the  *)
(* first attempt that makes exactly one request.                           *)
(***************************************************************************)
C3_UnexpectedNotRetried ==
    \A n \in 1..Len(calls) :
        LET r == Requests(n)
        IN \A k \in 1..Len(r) :
               r[k].error \in UnexpectedErrors =>
                   /\ k = Len(r)
                   /\ calls[n].state = "returned"
                   /\ calls[n].result = None

\* An unexpected error after two transient ones.
C3_Witness ==
    \E n \in 1..Len(calls) :
        LET r == Requests(n)
        IN /\ Len(r) = 3
           /\ TransientPrefix(r, 2)
           /\ r[3].error \in UnexpectedErrors
           /\ calls[n].state = "returned"

\* The invocations made with template name, as indices into calls, in order.
KindCalls(name) ==
    SelectSeq([n \in 1..Len(calls) |-> n],
              LAMBDA n : calls[n].prompt.template = name)

\* The key of the record field that a call made with template name fills.
FieldOf(name) == IF name = EXTRACT_PROMPT THEN "key_concepts" ELSE "qa_pairs"

\* The content the last request of invocation n returned.
LastContent(n) == Requests(n)[Len(Requests(n))].content

\* The study guide of the records has been printed or written.
GuideOutput ==
    LET guide == format_plain_text_output(all_processed_segments)
    IN \/ \E k \in 1..Len(console) :
              console[k].what = "guide" /\ console[k].body = guide
       \/ written_file = <<guide>>

(***************************************************************************)
(* C4. Once the provider client exists no provider outcome makes call_llm  *)
(* raise: an invocation that raised made no request and left no client,    *)
(* and every invocation that ended returned a text or None.                *)
(***************************************************************************)
C4_NoRaiseOnceClientExists ==
    \A n \in 1..Len(calls) :
        /\ calls[n].state = "raised" =>
               openai_client = NoClient /\ Requests(n) = <<>>
        /\ calls[n].state = "returned" => calls[n].result \in ProviderContents

\* A finished run whose calls met a success, a transient and an unexpected
\* error, all of them returned.
C4_Witness ==
    /\ pc = "done"
    /\ Len(calls) = 4
    /\ \E k \in 1..Len(events) : events[k].error \in TransientErrors
    /\ \E k \in 1..Len(events) : events[k].error \in UnexpectedErrors
    /\ \E k \in 1..Len(events) : events[k].op = "create" /\ events[k].error = ""
    /\ \A n \in 1..Len(calls) : calls[n].state = "returned"

(***************************************************************************)
(* C5. A request that succeeds with an empty or absent text gives the      *)
(* caller of call_llm an outcome other than the Failure value None.        *)
(***************************************************************************)
C5_EmptySuccessIsNotFailure ==
    \A n \in 1..Len(calls) :
        (ProviderSucceeded(n) /\ LastContent(n) \in {None, <<>>}) =>
            calls[n].result # None

(***************************************************************************)
(* C6. For every segment whose two calls ended one on a provider failure   *)
(* and the other on a provider success, the record holds the successful    *)
(* call's text in its field and None in the other.                         *)
(***************************************************************************)
C6_ExactlyOneFieldPresent ==
    (pc \in {"output", "done"} /\ prompt_files = PromptNames /\ api_key # "") =>
        \A i \in 1..Len(all_processed_segments) :
            LET c == KindCalls(EXTRACT_PROMPT)[i]
                q == KindCalls(QA_PROMPT)[i]
                rec == all_processed_segments[i]
            IN /\ (ProviderFailed(c) /\ ProviderSucceeded(q)) =>
                      /\ rec["key_concepts"] = None
                      /\ rec["qa_pairs"] # None
                      /\ rec["qa_pairs"] = LastContent(q)
               /\ (ProviderSucceeded(c) /\ ProviderFailed(q)) =>
                      /\ rec["qa_pairs"] = None
                      /\ rec["key_concepts"] # None
                      /\ rec["key_concepts"] = LastContent(c)

(***************************************************************************)
(* C7. Once the loop over the segments is over there is one record per     *)
(* segment, and record i comes from segment i: the i-th call of each kind  *)
(* was prompted with segment i, the field holds that call's result or      *)
(* None, and a text the call returned is in the field.                     *)
(***************************************************************************)
C7_RecordsMatchSegments ==
    (pc \in {"output", "done"} /\ text_segments # <<>>) =>
        /\ Len(all_processed_segments) = Len(text_segments)
        /\ \A i \in 1..Len(text_segments) : \A name \in PromptNames :
               LET field == all_processed_segments[i][FieldOf(name)]
               IN IF name \in prompt_files
                  THEN /\ Len(KindCalls(name)) >= i
                       /\ LET c == calls[KindCalls(name)[i]]
                          IN /\ c.prompt.text_segment = text_segments[i]
                             /\ field \in {None, c.result}
                             /\ Truthy(c.result) => field = c.result
                  ELSE field = None

\* Two segments: the first with both fields, the second with Q&A only.
C7_Witness ==
    /\ pc = "done"
    /\ Len(text_segments) = 2
    /\ Len(all_processed_segments) = 2
    /\ all_processed_segments[1]["key_concepts"] # None
    /\ all_processed_segments[1]["qa_pairs"] # None
    /\ all_processed_segments[2]["key_concepts"] = None
    /\ all_processed_segments[2]["qa_pairs"] # None

(***************************************************************************)
(* C8. A run in which a call ended on a provider failure still makes       *)
(* every call of every segment, outputs the study guide of one record per  *)
(* segment and ends with exit status 0.                                    *)
(***************************************************************************)
C8_ProviderFailureDoesNotAbort ==
    (pc = "done" /\ \E n \in 1..Len(calls) : ProviderFailed(n)) =>
        /\ exit_code = 0
        /\ Len(all_processed_segments) = Len(text_segments)
        /\ \A name \in prompt_files :
               /\ Len(KindCalls(name)) = Len(text_segments)
               /\ \A i \in 1..Len(text_segments) :
                      Requests(KindCalls(name)[i]) # <<>>
        /\ GuideOutput

\* Two segments, the very first call fails after four requests, the last
\* call succeeds.
C8_Witness ==
    /\ pc = "done"
    /\ Len(text_segments) = 2
    /\ Len(calls) = 4
    /\ ProviderFailed(1)
    /\ Len(Requests(1)) = DefaultMaxRetries + 1
    /\ ProviderSucceeded(4)
    /\ exit_code = 0

(***************************************************************************)
(* C9. With the API key missing and at least one segment the run ends      *)
(* with a non-zero exit status.                                            *)
(***************************************************************************)
C9_MissingKeyAborts ==
    (pc = "done" /\ api_key = "" /\ text_segments # <<>>) => exit_code # 0

(***************************************************************************)
(* C10. With the API key missing no provider request is ever made and no   *)
(* client is built.                                                        *)
(***************************************************************************)
C10_NoRequestWithoutKey ==
    api_key = "" =>
        /\ \A k \in 1..Len(events) : events[k].op # "create"
        /\ openai_client = NoClient
        /\ client_inits = 0

\* A finished run over two segments without a key: four invocations.
C10_Witness ==
    /\ api_key = ""
    /\ pc = "done"
    /\ Len(text_segments) = 2
    /\ Len(calls) = 4

(***************************************************************************)
(* C11. A missing prompt template is fatal: no call_llm invocation is made *)
(* for it, no record is built from it (its field is not stored as None),   *)
(* and a run that had segments to process ends with a non-zero exit        *)
(* status.                                                                 *)
(***************************************************************************)
C11_MissingTemplateIsFatal ==
    prompt_files # PromptNames =>
        /\ \A name \in PromptNames \ prompt_files : KindCalls(name) = <<>>
        /\ all_processed_segments = <<>>
        /\ (pc = "done" /\ text_segments # <<>>) => exit_code # 0

\* The words of all segments, in order.
RECURSIVE SegmentWords(_)
SegmentWords(segments) ==
    IF segments = <<>> THEN <<>>
    ELSE split(Head(segments)) \o SegmentWords(Tail(segments))

\* ceil(n / d) for d >= 1.
CeilDiv(n, d) == (n + d - 1) \div d

(***************************************************************************)
(* C12. For words_per_segment >= 1 the words of the segments returned by   *)
(* segment_text_by_word_count, concatenated in order, are the words of     *)
(* text.split().                                                           *)
(***************************************************************************)
C12_SegmentsReproduceWords ==
    (pc = "segmented" /\ words_per_segment >= 1) =>
        SegmentWords(text_segments) = split(cleaned_content)

\* Three different words in two segments, the second one shorter.
C12_Witness ==
    /\ pc = "segmented"
    /\ words_per_segment = 2
    /\ split(cleaned_content) = << <<"a">>, <<"b">>, <<"a">> >>
    /\ text_segments = << <<"a", " ", "b">>, <<"a">> >>

(***************************************************************************)
(* C13. For words_per_segment >= 1 every returned segment but the last     *)
(* has exactly words_per_segment words, the last has 1 to                  *)
(* words_per_segment words, no segment is empty, and n words give          *)
(* ceil(n / words_per_segment) segments.                                   *)
(***************************************************************************)
C13_SegmentSizes ==
    (pc = "segmented" /\ words_per_segment >= 1) =>
        LET n == Len(text_segments)
        IN /\ \A i \in 1..n :
                  /\ text_segments[i] # <<>>
                  /\ Len(split(text_segments[i])) \in 1..words_per_segment
                  /\ i < n => Len(split(text_segments[i])) = words_per_segment
           /\ n = CeilDiv(Len(split(cleaned_content)), words_per_segment)

\* Ten identical words at 3 per segment: word counts 3, 3, 3, 1.
C13_Witness ==
    /\ pc = "segmented"
    /\ words_per_segment = 3
    /\ cleaned_content = join(Repeat(Word, 10))
    /\ Len(text_segments) = 4
    /\ \A i \in 1..3 : Len(split(text_segments[i])) = 3
    /\ Len(split(text_segments[4])) = 1

(***************************************************************************)
(* C14. A text without words, empty or of whitespace only, gives no        *)
(* segments, whatever words_per_segment is.                                *)
(***************************************************************************)
C14_NoWordsNoSegments ==
    (pc = "segmented" /\ split(cleaned_content) = <<>>) => text_segments = <<>>

\* A text of whitespace only has been segmented with words_per_segment 1.
C14_Witness ==
    /\ pc = "segmented"
    /\ cleaned_content = <<" ", "\n">>
    /\ words_per_segment = 1
    /\ text_segments = <<>>

(***************************************************************************)
(* C15. A words_per_segment of 0 or less is reported as a configuration    *)
(* error upstream of the segmenter: in a run with such a value the         *)
(* transcript is not segmented, call_llm is not invoked and no request is  *)
(* made.                                                                   *)
(***************************************************************************)
C15_NonPositiveWordsPerSegmentRejected ==
    words_per_segment <= 0 =>
        /\ text_segments = <<>>
        /\ calls = <<>>
        /\ events = <<>>

(***************************************************************************)
(* C16. clean_transcript_text is idempotent: cleaning a text that          *)
(* clean_transcript_text returned gives that text again.                   *)
(***************************************************************************)
C16_CleanIdempotent ==
    [][pc = "cleaned" => cleaned_content' = cleaned_content]_vars

\* clean_transcript_text has returned cleaned_content.
Cleaned == pc \in {"cleaned", "cleaned_again"}

(***************************************************************************)
(* C17. The text clean_transcript_text returns neither starts nor ends     *)
(* with a comma or with "...".                                             *)
(***************************************************************************)
C17_NoLeadingTrailingArtifact ==
    Cleaned =>
        /\ ~startswith(cleaned_content, <<",">>)
        /\ ~endswith(cleaned_content, <<",">>)
        /\ ~startswith(cleaned_content, <<".", ".", ".">>)
        /\ ~endswith(cleaned_content, <<".", ".", ".">>)

(***************************************************************************)
(* C18. The text clean_transcript_text returns holds no whole-word,        *)
(* case-insensitive occurrence of a filler of filler_words.                *)
(***************************************************************************)
C18_NoFillerLeft ==
    Cleaned =>
        \A k \in 1..Len(filler_words) : \A p \in 1..Len(cleaned_content) :
            ~MatchesWordAt(cleaned_content, filler_words[k], p)

(***************************************************************************)
(* C19. In the text clean_transcript_text returns no whitespace stands     *)
(* before one of , . ! ? and no whitespace is followed by whitespace, and  *)
(* the only whitespace is the space.                                       *)
(***************************************************************************)
C19_NoSpaceBeforePunctuation ==
    Cleaned =>
        \A p \in 1..Len(cleaned_content) :
            IsSpace(cleaned_content[p]) =>
                /\ cleaned_content[p] = " "
                /\ p < Len(cleaned_content) =>
                       /\ ~IsPunct(cleaned_content[p + 1])
                       /\ ~IsSpace(cleaned_content[p + 1])

\* The maximal runs of word characters of s from position p on, in order.
RECURSIVE WordRunEnd(_, _)
WordRunEnd(s, p) ==
    IF p <= Len(s) /\ IsWordChar(s[p]) THEN WordRunEnd(s, p + 1) ELSE p
RECURSIVE WordRunsFrom(_, _)
WordRunsFrom(s, p) ==
    IF p > Len(s) THEN <<>>
    ELSE IF IsWordChar(s[p])
         THEN <<SubSeq(s, p, WordRunEnd(s, p) - 1)>> \o WordRunsFrom(s, WordRunEnd(s, p))
         ELSE WordRunsFrom(s, p + 1)

\* The word w holds a filler as a substring and is more than that filler.
Embedded(w) ==
    /\ \E k \in 1..Len(filler_words) : \E p \in 1..Len(w) :
           /\ p + Len(filler_words[k]) - 1 <= Len(w)
           /\ \A j \in 1..Len(filler_words[k]) : Lower(w[p + j - 1]) = filler_words[k][j]
    /\ \A k \in 1..Len(filler_words) : [j \in 1..Len(w) |-> Lower(w[j])] # filler_words[k]

\* The words of s that merely contain a filler, in order.
EmbeddedWords(s) == SelectSeq(WordRunsFrom(s, 1), Embedded)

(***************************************************************************)
(* C20. Filler removal is word-boundary safe: the words of the input that  *)
(* contain a filler as a substring next to other word characters (such as  *)
(* "something") are, unchanged and in the same order, the words of that    *)
(* kind of the text clean_transcript_text returns.                         *)
(***************************************************************************)
C20_WordBoundarySafe ==
    pc = "cleaned" => EmbeddedWords(cleaned_content) = EmbeddedWords(transcript_file)

\* "something" is returned intact.
C20_Witness ==
    /\ pc = "cleaned"
    /\ transcript_file = <<"s","o","m","e","t","h","i","n","g">>
    /\ cleaned_content = <<"s","o","m","e","t","h","i","n","g">>

(***************************************************************************)
(* C21. The provider client is constructed at most once in a process:      *)
(* once _openai_client is set no step replaces it or constructs another,   *)
(* and the number of constructions never exceeds one.                      *)
(***************************************************************************)
C21_ClientConstructedOnce ==
    [][/\ openai_client # NoClient =>
              (openai_client' = openai_client /\ client_inits' = client_inits)
       /\ client_inits' <= 1]_vars

\* Four invocations have returned and one client was constructed.
C21_Witness ==
    /\ Len(calls) = 4
    /\ \A n \in 1..4 : calls[n].state = "returned" /\ Requests(n) # <<>>
    /\ client_inits = 1
    /\ openai_client = OpenAI(api_key)

\* The run reported that output_file could not be written.
WriteFailed ==
    \E k \in 1..Len(console) : console[k].what = "error: could not write"

(***************************************************************************)
(* C22. A run whose write to output_file failed with an IOError has        *)
(* printed the formatted study guide of its records to the console, left   *)
(* no file or a truncated one, and ends with exit status 0.                *)
(***************************************************************************)
C22_WriteFailureFallsBack ==
    (pc = "done" /\ WriteFailed) =>
        LET guide == format_plain_text_output(all_processed_segments)
        IN /\ \E k \in 1..Len(console) :
                  /\ console[k].what = "guide"
                  /\ console[k].body = guide
           /\ written_file \in {<<>>, <<Truncated(guide)>>}
           /\ exit_code = 0

\* The write failed in a run over two segments with a stored text, leaving a
\* truncated file.
C22_Witness ==
    /\ pc = "done"
    /\ WriteFailed
    /\ written_file # <<>>
    /\ output_file # ""
    /\ Len(all_processed_segments) = 2
    /\ all_processed_segments[2]["qa_pairs"] = <<"o", "k">>
    /\ console[Len(console)].what = "guide"
    /\ console[Len(console)].body # <<>>

\* The lines format_plain_text_output returned.
Rendered == console[1].body

\* A "--- SEGMENT k ---" line, whatever its number.
SegmentHeader(k) == Fixed("--- SEGMENT " \o ToString(k) \o " ---")
IsSegmentHeader(line) == \E k \in 0..(MaxRecords + 2) : line = SegmentHeader(k)

\* The positions of the segment headers in lines, in order.
HeaderPositions(lines) ==
    SelectSeq([p \in 1..Len(lines) |-> p], LAMBDA p : IsSegmentHeader(lines[p]))

\* The lines from header k up to the next header or the end.
Block(lines, k) ==
    LET H == HeaderPositions(lines)
    IN SubSeq(lines, H[k] + 1, IF k < Len(H) THEN H[k + 1] - 1 ELSE Len(lines))

Has(lines, line) == \E p \in 1..Len(lines) : lines[p] = line

\* The field texts rendered in lines, in order.
Contents(lines) == SelectSeq(lines, LAMBDA line : "content" \in DOMAIN line)

\* What a field's value contributes to the texts of its block.
OwnText(value) == IF value = None THEN <<>> ELSE <<Content(strip(value))>>

\* Within block, the field with this value and title is rendered as its
\* heading and text, or as the placeholder when it is None.
FieldRendered(block, value, title) ==
    IF value # None
    THEN /\ Has(block, Fixed(title \o ":"))
         /\ ~Has(block, Fixed(title \o ": Not generated for this segment."))
    ELSE /\ Has(block, Fixed(title \o ": Not generated for this segment."))
         /\ ~Has(block, Fixed(title \o ":"))

(***************************************************************************)
(* C23. format_plain_text_output renders one "--- SEGMENT k ---" block per *)
(* record, numbered 1..n in input order; in block k each field is rendered *)
(* as its (stripped) text when it is not None, the empty string included,  *)
(* and as the "Not generated for this segment." line when it is None; the  *)
(* texts in block k are those of record k and no others; no record gives   *)
(* the empty output.                                                       *)
(***************************************************************************)
C23_OneBlockPerRecord ==
    pc = "formatted" =>
        LET n == Len(all_processed_segments)
            H == HeaderPositions(Rendered)
        IN /\ n = 0 => Rendered = <<>>
           /\ Len(H) = n
           /\ \A k \in 1..Len(H) : k <= n =>
                  LET kc == get(all_processed_segments[k], "key_concepts")
                      qa == get(all_processed_segments[k], "qa_pairs")
                      block == Block(Rendered, k)
                  IN /\ Rendered[H[k]] = SegmentHeader(k)
                     /\ FieldRendered(block, kc, "Key Concepts & Definitions")
                     /\ FieldRendered(block, qa, "Practice Questions & Answers")
                     /\ Contents(block) = OwnText(kc) \o OwnText(qa)

\* Two records: an empty string with no Q&A, then no concepts with a text.
C23_Witness ==
    /\ pc = "formatted"
    /\ all_processed_segments = << Record(<<>>, None), Record(None, <<" ", "b", "\n">>) >>
    /\ Contents(Block(Rendered, 1)) = <<Content(<<>>)>>
    /\ Contents(Block(Rendered, 2)) = <<Content(<<"b">>)>>

\* The backoff sleeps of invocation n, in order.
Sleeps(n) == SelectSeq(events, LAMBDA e : e.op = "sleep" /\ e.inv = n)

\* C24: the delay slept after the failed attempt with index i is
\* base_delay_seconds ** i plus a jitter between 0 and 10% of that power;
\* with base_delay_seconds = 1 every delay lies in [1.0, 1.1] seconds
\* whatever i is. While a sleep is in progress attempt is still the index of
\* the attempt that failed; durations are in hundredths of a second.
C24_BackoffDelay ==
    delay # NotSleeping =>
        LET base == CurrentCall.base_delay_seconds
            power == Pow(base, attempt)
            jitter == delay[1] - 100 * power
        IN /\ events[Len(events)].op = "sleep"
           /\ events[Len(events)].attempt = attempt
           /\ 0 <= 10 * jitter /\ 10 * jitter <= 100 * power
           /\ base = 1 => 100 <= delay[1] /\ delay[1] <= 110

\* With base_delay_seconds = 1 the sleep after the third failed attempt
\* lasts 1.1 s.
C24_Witness ==
    /\ calls # <<>>
    /\ calls[1].base_delay_seconds = 1
    /\ Len(Sleeps(1)) = 3
    /\ attempt = 2
    /\ delay = <<110>>

\* The segments are pairwise different texts, so that a prompt tells which
\* segment it was made from.
DistinctSegments(segs) ==
    \A i, j \in 1..Len(segs) : segs[i] = segs[j] => i = j

\* The place of invocation c in the order segment 1 extraction, segment 1
\* Q&A, segment 2 extraction, ...: twice the index of its segment, plus one
\* for Q&A.
Rank(segs, c) ==
    2 * (CHOOSE i \in 1..Len(segs) : segs[i] = c.prompt.text_segment)
        + (IF c.prompt.template = QA_PROMPT THEN 1 ELSE 0)

\* C25: provider calls happen in a strict sequential order: within a segment
\* every attempt of the extraction precedes every attempt of the Q&A call, and
\* every attempt for segment i precedes every attempt for segment i+1. Each
\* step that makes a request makes it for an invocation that is not ranked
\* before the invocation of the latest earlier event, and is that very
\* invocation when the ranks are equal; as this holds at every step, no
\* earlier event at all is ranked after a later one. An invocation begins
\* only when the one before has finished.
C25_SequentialOrder ==
    [][/\ Len(calls') > Len(calls) /\ calls # <<>> => Finished
       /\ (Len(events') > Len(events) /\ DistinctSegments(text_segments')) =>
              LET new == calls'[events'[Len(events')].inv]
              IN /\ \E i \in 1..Len(text_segments') :
                        text_segments'[i] = new.prompt.text_segment
                 /\ new.prompt.template \in PromptNames
                 /\ \A k \in 1..Len(events') :
                        k > Len(events) => events'[k].inv = events'[Len(events')].inv
                 /\ events # <<>> =>
                        LET old == calls'[events[Len(events)].inv]
                        IN /\ Rank(text_segments', old) <= Rank(text_segments', new)
                           /\ Rank(text_segments', old) = Rank(text_segments', new)
                                  => events[Len(events)].inv = events'[Len(events')].inv]_vars

\* Two segments, each with an extraction and a Q&A invocation, the
\* Q&A of the first segment and the extraction of the second both retried.
C25_Witness ==
    /\ pc = "done"
    /\ Len(text_segments) = 2
    /\ DistinctSegments(text_segments)
    /\ Len(calls) = 4
    /\ Len(Requests(2)) > 1
    /\ Len(Requests(3)) > 1
    /\ \A n \in 1..4 : Requests(n) # <<>>

\* C26: with max_retries >= 0 an invocation makes at most max_retries + 1
\* requests (4 with the default), one at each attempt index from 0, the
\* attempt counter never exceeds max_retries, and the invocation has ended
\* once the request at index max_retries has been made.
C26_BoundedAttempts ==
    \A n \in 1..Len(calls) : calls[n].max_retries >= 0 =>
        LET r == Requests(n)
        IN /\ Len(r) <= calls[n].max_retries + 1
           /\ \A k \in 1..Len(r) : r[k].attempt = k - 1
           /\ n = Len(calls) => attempt <= calls[n].max_retries
           /\ Len(r) = calls[n].max_retries + 1 => calls[n].state # "running"
           /\ calls[n].max_retries = DefaultMaxRetries => Len(r) <= 4

\* An invocation with the default max_retries ends at its fourth request.
C26_Witness ==
    /\ calls # <<>>
    /\ calls[1].max_retries = DefaultMaxRetries
    /\ Len(Requests(1)) = 4
    /\ attempt = 3
    /\ calls[1].state = "returned"

\* C27: a backoff sleep happens only between two requests of one invocation:
\* the event before it is a request of that invocation that failed with a
\* transient error, the event after it is the next request of that
\* invocation (the invocation is still running while that request is to
\* come), and an invocation that has ended after k requests has slept k - 1
\* times, its last event being a request.
C27_SleepOnlyBetweenAttempts ==
    /\ \A k \in 1..Len(events) : events[k].op = "sleep" =>
           /\ k > 1
           /\ events[k - 1].op = "create"
           /\ events[k - 1].error \in TransientErrors
           /\ events[k - 1].inv = events[k].inv
           /\ events[k - 1].attempt = events[k].attempt
           /\ IF k < Len(events)
              THEN /\ events[k + 1].op = "create"
                   /\ events[k + 1].inv = events[k].inv
                   /\ events[k + 1].attempt = events[k].attempt + 1
              ELSE calls[events[k].inv].state = "running"
    /\ \A n \in 1..Len(calls) :
           calls[n].state # "running" /\ Requests(n) # <<>> =>
               Len(Sleeps(n)) = Len(Requests(n)) - 1

\* Three requests that all failed with a transient error, two sleeps, none
\* after the last failure.
C27_Witness ==
    /\ calls # <<>>
    /\ calls[1].state = "returned"
    /\ Len(Requests(1)) = 3
    /\ TransientPrefix(Requests(1), 3)
    /\ Len(Sleeps(1)) = 2
    /\ events[Len(events)].op = "create"

\* C28: the retry budget is per invocation. A step that begins an invocation
\* sets attempt to 0; a step that makes a request makes it at the attempt
\* index equal to the number of requests that invocation made before, whatever
\* the invocations before it consumed; and an invocation that gives up on a
\* transient error does so at attempt index max_retries only.
C28_BudgetPerInvocation ==
    [][/\ Len(calls') > Len(calls) => attempt' = 0
       /\ \A k \in 1..Len(events') :
              k > Len(events) /\ events'[k].op = "create" =>
                  LET n == events'[k].inv
                  IN /\ n = Len(calls)
                     /\ events'[k].attempt = Len(Requests(n))
                     /\ (events'[k].error \in TransientErrors
                            /\ calls'[n].state # "running")
                           => events'[k].attempt = calls'[n].max_retries]_vars

\* The extraction of a segment used up all four attempts, and the Q&A call of
\* the same segment and the extraction of the next segment made four each.
C28_Witness ==
    /\ Len(calls) >= 3
    /\ calls[1].prompt.text_segment = calls[2].prompt.text_segment
    /\ calls[3].prompt.text_segment # calls[1].prompt.text_segment
    /\ \A n \in 1..3 :
           /\ Len(Requests(n)) = DefaultMaxRetries + 1
           /\ TransientPrefix(Requests(n), DefaultMaxRetries + 1)
           /\ calls[n].state = "returned"

\* C29: an invocation with a negative max_retries (and a client) makes no
\* request, does not sleep, and returns None; an invocation that has made a
\* request has max_retries >= 0.
C29_NegativeMaxRetries ==
    \A n \in 1..Len(calls) :
        /\ (HasClient(n) /\ calls[n].max_retries < 0) =>
               /\ Requests(n) = <<>>
               /\ Sleeps(n) = <<>>
               /\ calls[n].state = "returned"
               /\ calls[n].result = None
        /\ Requests(n) # <<>> => calls[n].max_retries >= 0

\* call_llm(prompt, max_retries=-1) with a key: the client is built, nothing
\* is requested, None is returned.
C29_Witness ==
    /\ calls # <<>>
    /\ calls[1].max_retries = -1
    /\ openai_client # NoClient
    /\ calls[1].state = "returned"
    /\ calls[1].result = None
    /\ events = <<>>

\* Transcripts without content: empty, whitespace only, fillers only.
EmptyTranscripts ==
    { <<>>, <<" ", "\n">>, <<"U","m",","," ","s","o",".",".",".">> }

\* C30: once a transcript that was read has been cleaned and segmented into
\* no segment at all, the run is over: no invocation and no request was made,
\* the client was not built, nothing was written to the output file, and the
\* exit status is 0. The empty, the whitespace-only and the filler-only
\* transcript give no segment.
C30_EmptyTranscriptEndsQuietly ==
    (pc # "start" /\ transcript_file # None) =>
        /\ transcript_file \in EmptyTranscripts => text_segments = <<>>
        /\ text_segments = <<>> =>
               /\ pc = "done"
               /\ calls = <<>>
               /\ events = <<>>
               /\ openai_client = NoClient
               /\ client_inits = 0
               /\ written_file = <<>>
               /\ exit_code = 0

\* A transcript of fillers only, with a key, both templates and an output
\* file at hand: the run is over and none of them was used.
C30_Witness ==
    /\ pc = "done"
    /\ transcript_file = <<"U","m",","," ","s","o",".",".",".">>
    /\ text_segments = <<>>
    /\ api_key # ""
    /\ prompt_files = PromptNames
    /\ output_file # ""
    /\ console = <<Printed("no content", <<>>)>>
====
